---- MODULE Spec2Model ----
(***************************************************************************)
(* Model of packages/coding-agent/src/stt/transcribe.py: main() and        *)
(* load_wav().  One action per statement group of the script; an uncaught  *)
(* Python exception ends the run with exit status 1 and a traceback on the *)
(* error stream.                                                           *)
(*                                                                         *)
(* Sample values are exact rationals [n, d] in lowest terms.  The          *)
(* int32 -> float32 conversion of 4-byte samples is modelled (24-bit       *)
(* significand, round half to even); the float32 rounding of the mean and  *)
(* of the interpolated values is not.                                      *)
(***************************************************************************)
EXTENDS Integers, Sequences, FiniteSets, TLC

VARIABLES
    argv,             \* sys.argv
    pc,               \* position in main() / load_wav()
    audio_path,       \* main: audio_path
    model_name,       \* main: model_name
    language,         \* main: language
    wf,               \* load_wav: rate, channels, width, raw
    audio,            \* load_wav: audio
    result,           \* main: result["text"]
    opened,           \* paths handed to wave.open, in order
    loadCalls,        \* model names handed to whisper.load_model, in order
    transcribeCalls,  \* (audio, language) handed to model.transcribe, in order
    stdout,           \* lines printed to standard output
    stderr,           \* messages printed to the error stream
    exitCode,         \* process exit status, Running until the process ends
    raised            \* the exception that ended the run, "none" otherwise

vars == <<argv, pc, audio_path, model_name, language, wf, audio, result,
          opened, loadCalls, transcribeCalls, stdout, stderr, exitCode, raised>>

----------------------------------------------------------------------------
(* Bounds of the model. *)

\* most samples in a frame payload of the pipeline's input files
MaxSamples == 4

\* most samples in an input of the normalizer-only specification
MaxNormSamples == 2

(* Program constants. *)
TargetRate == 16000

----------------------------------------------------------------------------
(* Exact rational arithmetic. *)

RECURSIVE GCD(_, _)
GCD(a, b) == IF b = 0 THEN a ELSE GCD(b, a % b)

Abs(x) == IF x < 0 THEN -x ELSE x

Rat(n, d) == LET g == GCD(Abs(n), d) IN [n |-> n \div g, d |-> d \div g]

RatAdd(a, b) ==
    LET g == GCD(a.d, b.d)
    IN  Rat(a.n * (b.d \div g) + b.n * (a.d \div g), (a.d \div g) * b.d)

RatNeg(a) == [n |-> -a.n, d |-> a.d]

RatSub(a, b) == RatAdd(a, RatNeg(b))

\* a * (r / q), q > 0
RatMulFrac(a, r, q) ==
    LET f == Rat(r, q)
        g1 == GCD(Abs(a.n), f.d)
        g2 == GCD(Abs(f.n), a.d)
    IN  [n |-> (a.n \div g1) * (f.n \div g2), d |-> (a.d \div g2) * (f.d \div g1)]

RatLeq(a, b) ==
    LET g == GCD(a.d, b.d) IN a.n * (b.d \div g) <= b.n * (a.d \div g)

RECURSIVE RatSum(_)
RatSum(s) == IF s = <<>> THEN [n |-> 0, d |-> 1]
             ELSE RatAdd(Head(s), RatSum(Tail(s)))

Zero == [n |-> 0, d |-> 1]
One == [n |-> 1, d |-> 1]
MinusOne == [n |-> -1, d |-> 1]

----------------------------------------------------------------------------
(* Sample decoding and normalisation, load_wav lines 27-34. *)

Pow2(k) == 2 ^ k

\* a byte read as a two's complement int8
Signed8(b) == IF b >= 128 THEN b - 256 ELSE b

\* np.frombuffer(raw, dtype): the little-endian integers held by raw, `width`
\* bytes each; uint8 for width 1, int16 and int32 for widths 2 and 4
FromBuffer(raw, width) ==
    [i \in 1..(Len(raw) \div width) |->
        LET b(j) == raw[(i - 1) * width + j]
        IN  CASE width = 1 -> b(1)
              [] width = 2 -> b(1) + 256 * Signed8(b(2))
              [] width = 4 -> b(1) + 256 * b(2) + 65536 * b(3)
                              + 16777216 * Signed8(b(4))]

\* v halved, rounded towards zero
TruncHalf(v) == IF v >= 0 THEN v \div 2 ELSE (v + 1) \div 2

\* the binary exponent s such that float32(v) = m * 2^s with |m| <= 2^24
RECURSIVE Float32Shift(_)
Float32Shift(v) ==
    IF -16777216 <= v /\ v <= 16777216 THEN 0
    ELSE 1 + Float32Shift(TruncHalf(v))

\* v / p rounded to the nearest integer, ties to even (p > 0)
RoundHalfEven(v, p) ==
    LET q == v \div p
        r == v - q * p
    IN  IF 2 * r < p THEN q
        ELSE IF 2 * r > p THEN q + 1
        ELSE IF q % 2 = 0 THEN q ELSE q + 1

\* m / 2^e in lowest terms
RECURSIVE Dyadic(_, _)
Dyadic(m, e) ==
    IF e = 0 THEN [n |-> m, d |-> 1]
    ELSE IF m % 2 = 0 THEN Dyadic(m \div 2, e - 1)
    ELSE [n |-> m, d |-> Pow2(e)]

\* as NormalizeInt16, dividing by the largest value instead of 32768
NormalizeInt16ByMax(v) == Rat(v, 32767)

\* int16 -> float32 (exact), / 32768.0
NormalizeInt16(v) == Dyadic(v, 15)

\* uint8 -> float32 (exact), - 128.0, / 128.0
NormalizeUInt8(v) == Dyadic(v - 128, 7)

\* int32 -> float32 (24-bit significand, round half to even), / 2147483648.0
NormalizeInt32(v) ==
    LET s == Float32Shift(v)
    IN  Dyadic(RoundHalfEven(v, Pow2(s)), 31 - s)

Normalize(raw, width) ==
    LET ints == FromBuffer(raw, width)
    IN  [i \in 1..Len(ints) |->
            CASE width = 2 -> NormalizeInt16(ints[i])
              [] width = 1 -> NormalizeUInt8(ints[i])
              [] width = 4 -> NormalizeInt32(ints[i])]

----------------------------------------------------------------------------
(* Mixing to mono, load_wav lines 36-38. *)

\* as MixToMono, keeping the first channel instead of the mean
MixToMonoFirstChannel(a, channels) ==
    [i \in 1..(Len(a) \div channels) |-> a[(i - 1) * channels + 1]]

\* audio.reshape(-1, channels).mean(axis=1), Len(a) a multiple of channels
MixToMono(a, channels) ==
    [i \in 1..(Len(a) \div channels) |->
        RatMulFrac(RatSum(SubSeq(a, (i - 1) * channels + 1, i * channels)),
                   1, channels)]

----------------------------------------------------------------------------
(* Resampling to 16 kHz, load_wav lines 40-47. *)

\* as TargetLen, with round() in the place of int()
TargetLenRounded(len, rate) == RoundHalfEven(len * 16000, rate)

\* int(len(audio) * 16000 / rate), rate > 0
TargetLen(len, rate) == (len * TargetRate) \div rate

\* as Linspace, with endpoint=False: the last position falls short of stop
LinspaceNoEndpoint(stop, num) ==
    [k \in 1..num |-> Rat((k - 1) * stop, num)]

\* np.linspace(0, stop, num): num positions, as rationals
Linspace(stop, num) ==
    [k \in 1..num |->
        IF num = 1 THEN Zero ELSE Rat((k - 1) * stop, num - 1)]

\* floor of a rational
Floor(x) == x.n \div x.d

\* np.interp(x, np.arange(len(fp)), fp) at one position x; fp not empty
Interp(x, fp) ==
    LET last == Len(fp) - 1
        j == Floor(x)
    IN  IF Len(fp) = 1 THEN fp[1]
        ELSE IF ~RatLeq(Zero, x) THEN fp[1]
        ELSE IF RatLeq([n |-> last, d |-> 1], x) THEN fp[last + 1]
        ELSE IF x.d = 1 THEN fp[j + 1]
        ELSE RatAdd(fp[j + 1],
                    RatMulFrac(RatSub(fp[j + 2], fp[j + 1]),
                               x.n - j * x.d, x.d))

Resample(a, rate) ==
    LET x == Linspace(Len(a) - 1, TargetLen(Len(a), rate))
    IN  [k \in 1..Len(x) |-> Interp(x[k], a)]

----------------------------------------------------------------------------
(* The language check, main line 59, and the text clean-up, main line 66. *)

Letters ==
    {"a", "b", "c", "d", "e", "f", "g", "h", "i", "j", "k", "l", "m",
     "n", "o", "p", "q", "r", "s", "t", "u", "v", "w", "x", "y", "z",
     "A", "B", "C", "D", "E", "F", "G", "H", "I", "J", "K", "L", "M",
     "N", "O", "P", "Q", "R", "S", "T", "U", "V", "W", "X", "Y", "Z"}

AllLetters(s) == \A i \in 1..Len(s) : s[i] \in Letters

\* as FullMatch, with re.match: a prefix of s matches
FullMatchPrefix(s) == Len(s) >= 2 /\ AllLetters(SubSeq(s, 1, 2))

\* as FullMatch, with re.match and a closing $: a final newline is let through
FullMatchDollar(s) ==
    LET t == IF s # <<>> /\ s[Len(s)] = "\n" THEN SubSeq(s, 1, Len(s) - 1)
             ELSE s
    IN  \E k \in 2..3 :
            /\ Len(t) >= k
            /\ AllLetters(SubSeq(t, 1, k))
            /\ LET rest == SubSeq(t, k + 1, Len(t))
               IN  \/ rest = <<>>
                   \/ /\ Len(rest) = 3
                      /\ rest[1] = "-"
                      /\ AllLetters(SubSeq(rest, 2, 3))

\* re.fullmatch(r"[A-Za-z]{2,3}(-[A-Za-z]{2})?", s) is not None;
\* a string is the sequence of its characters
FullMatch(s) ==
    \E k \in 2..3 :
        /\ Len(s) >= k
        /\ AllLetters(SubSeq(s, 1, k))
        /\ LET rest == SubSeq(s, k + 1, Len(s))
           IN  \/ rest = <<>>
               \/ /\ Len(rest) = 3
                  /\ rest[1] = "-"
                  /\ AllLetters(SubSeq(rest, 2, 3))

Whitespace == {" ", "\n", "\t"}

RECURSIVE LStrip(_)
LStrip(s) == IF s # <<>> /\ Head(s) \in Whitespace THEN LStrip(Tail(s)) ELSE s

RECURSIVE RStrip(_)
RStrip(s) ==
    IF s # <<>> /\ s[Len(s)] \in Whitespace
    THEN RStrip(SubSeq(s, 1, Len(s) - 1)) ELSE s

\* str.strip()
Strip(s) == RStrip(LStrip(s))

----------------------------------------------------------------------------
(* The inputs: command lines, files on disk, the model's answers. *)

DefaultModel == "base.en"
DefaultLanguage == <<"e", "n">>

Paths == {"a.wav"}
ModelNames == {"tiny"}

Languages ==
    { <<"e", "n">>, <<"e", "n", "g">>, <<"z", "h", "-", "C", "N">>,
      <<"F", "R">>, <<"e", "n", "g", "-", "U", "S">>,
      <<"e">>, <<"e", "n", "g", "l", "i", "s", "h">>,
      <<"e", "n", "_", "U", "S">>, <<>>,
      <<"e", "n", "-">>, <<"e", "n", "-", "U">>,
      <<"e", "n", "-", "U", "S", "A">>, <<"e", "n", "g", "l">>,
      <<"e", "n", "\n">>, <<" ", "e", "n">>, <<"e", "1">>,
      <<"-", "e", "n">>, <<"e", "n", "-", "U", "5">> }

\* sys.argv: the script, then up to three arguments
Argvs ==
    {<<"transcribe.py">>}
    \cup {<<"transcribe.py", p>> : p \in Paths}
    \cup {<<"transcribe.py", p, m>> : p \in Paths, m \in ModelNames}
    \cup {<<"transcribe.py", p, m, l>> :
            p \in Paths, m \in ModelNames, l \in Languages}

Rates == {0, 8000, 9600, 16000, 24000}
ChannelCounts == {1, 2, 3}
SupportedWidths == {1, 2, 4}
UnsupportedWidths == {3, 8}

\* the raw sample values the input files are built from, per width
SampleValues(width) ==
    CASE width = 1 -> {0, 128, 255}
      [] width = 2 -> {-32768, 0, 16384}
      [] width = 4 -> {-2147483647 - 1, 1073741825, 2147483647}

\* the little-endian bytes of one sample
Encode(v, width) ==
    CASE width = 1 -> <<v>>
      [] width = 2 -> <<v % 256, (v \div 256) % 256>>
      [] width = 4 -> <<v % 256, (v \div 256) % 256, (v \div 65536) % 256,
                        (v \div 16777216) % 256>>

RECURSIVE EncodeAll(_, _)
EncodeAll(s, width) ==
    IF s = <<>> THEN <<>>
    ELSE Encode(Head(s), width) \o EncodeAll(Tail(s), width)

SeqsUpTo(S, n) == UNION {[1..k -> S] : k \in 0..n}

\* a payload cut short in the middle of a sample has one byte too many
Tails(width) == IF width = 1 THEN {<<>>} ELSE {<<>>, <<0>>}

Payloads(width, n) ==
    {EncodeAll(s, width) \o t :
        s \in SeqsUpTo(SampleValues(width), n), t \in Tails(width)}

\* what wave.open, the getters and readframes can return for a readable
\* RIFF/WAVE PCM file
Files ==
    UNION {[rate : Rates, channels : ChannelCounts, width : {w},
            raw : Payloads(w, MaxSamples)] : w \in SupportedWidths}
    \cup [rate : Rates, channels : ChannelCounts, width : UnsupportedWidths,
          raw : {<<>>, <<0, 0, 128>>}]

\* the raw sample values the normalizer alone is applied to, per width: the
\* extremes, the values next to them and to zero, and for 4-byte samples the
\* values float32 cannot hold exactly
NormSampleValues(width) ==
    CASE width = 1 -> {0, 1, 127, 128, 129, 254, 255}
      [] width = 2 -> {-32768, -32767, -1, 0, 1, 16384, 32767}
      [] width = 4 -> {-2147483647 - 1, -2147483647, -2, 0, 2, 16777217,
                       16777219, 2147483520, 2147483584, 2147483647}

NormFiles ==
    UNION {[rate : {TargetRate}, channels : {1}, width : {w},
            raw : Payloads(w, MaxNormSamples)
                  \cup {EncodeAll(s, w) : s \in SeqsUpTo(NormSampleValues(w),
                                                          MaxNormSamples)}
                  \cup (IF w = 1 THEN {<<b>> : b \in 0..255} ELSE {})] :
           w \in SupportedWidths}
    \cup [rate : {TargetRate}, channels : {1}, width : UnsupportedWidths,
          raw : {<<>>, <<0, 0, 128>>}]

\* what the model can answer
Texts == {<<>>, <<" ", "h", "i", "\n">>}

Running == -1

NoFile == [rate |-> 0, channels |-> 0, width |-> 0, raw |-> <<>>]

----------------------------------------------------------------------------
(* The state machine. *)

Init ==
    /\ argv \in Argvs
    /\ pc = "start"
    /\ audio_path = ""
    /\ model_name = ""
    /\ language = <<>>
    /\ wf = NoFile
    /\ audio = <<>>
    /\ result = <<>>
    /\ opened = <<>>
    /\ loadCalls = <<>>
    /\ transcribeCalls = <<>>
    /\ stdout = <<>>
    /\ stderr = <<>>
    /\ exitCode = Running
    /\ raised = "none"

\* an exception nothing catches: traceback on the error stream, exit status 1
Raise(exc) ==
    /\ pc' = "exit"
    /\ exitCode' = 1
    /\ raised' = exc
    /\ stderr' = Append(stderr, [kind |-> "traceback", text |-> <<exc>>])

\* sys.exit(1) after a message on the error stream
ExitWith(kind, text) ==
    /\ pc' = "exit"
    /\ exitCode' = 1
    /\ raised' = "SystemExit"
    /\ stderr' = Append(stderr, [kind |-> kind, text |-> text])

\* as ParseArgs, without the argument count check: sys.argv[1] raises
ParseArgsUnchecked ==
    /\ pc = "start"
    /\ IF Len(argv) < 2
       THEN /\ Raise("IndexError")
            /\ UNCHANGED <<audio_path, model_name, language>>
       ELSE /\ audio_path' = argv[2]
            /\ model_name' = IF Len(argv) > 2 THEN argv[3] ELSE DefaultModel
            /\ language' = IF Len(argv) > 3 THEN argv[4] ELSE DefaultLanguage
            /\ pc' = "validate"
            /\ UNCHANGED <<exitCode, raised, stderr>>
    /\ UNCHANGED <<argv, wf, audio, result, opened, loadCalls,
                   transcribeCalls, stdout>>

\* main lines 53-58
ParseArgs ==
    /\ pc = "start"
    /\ IF Len(argv) < 2
       THEN /\ ExitWith("usage", <<>>)
            /\ UNCHANGED <<audio_path, model_name, language>>
       ELSE /\ audio_path' = argv[2]
            /\ model_name' = IF Len(argv) > 2 THEN argv[3] ELSE DefaultModel
            /\ language' = IF Len(argv) > 3 THEN argv[4] ELSE DefaultLanguage
            /\ pc' = "validate"
            /\ UNCHANGED <<exitCode, raised, stderr>>
    /\ UNCHANGED <<argv, wf, audio, result, opened, loadCalls,
                   transcribeCalls, stdout>>

\* main lines 59-61
ValidateLanguage ==
    /\ pc = "validate"
    /\ IF ~FullMatch(language)
       THEN ExitWith("invalid_language", language)
       ELSE /\ pc' = "open"
            /\ UNCHANGED <<exitCode, raised, stderr>>
    /\ UNCHANGED <<argv, audio_path, model_name, language, wf, audio, result,
                   opened, loadCalls, transcribeCalls, stdout>>

\* as OpenWav, with the wave.Error caught and an empty sequence returned
OpenWavSwallowingError ==
    /\ pc = "open"
    /\ opened' = Append(opened, audio_path)
    /\ \/ /\ Raise("FileNotFoundError")
          /\ UNCHANGED wf
       \/ /\ pc' = "load_model"
          /\ UNCHANGED <<wf, exitCode, raised, stderr>>
       \/ /\ \E f \in Files : wf' = f
          /\ pc' = "normalize"
          /\ UNCHANGED <<exitCode, raised, stderr>>
    /\ UNCHANGED <<argv, audio_path, model_name, language, audio, result,
                   loadCalls, transcribeCalls, stdout>>

\* main line 63 into load_wav lines 20-25: the path is missing or unreadable,
\* or holds no RIFF/WAVE PCM stream, or is read in full
OpenWav ==
    /\ pc = "open"
    /\ opened' = Append(opened, audio_path)
    /\ \/ /\ Raise("FileNotFoundError")
          /\ UNCHANGED wf
       \/ /\ Raise("wave.Error")
          /\ UNCHANGED wf
       \/ /\ \E f \in Files : wf' = f
          /\ pc' = "normalize"
          /\ UNCHANGED <<exitCode, raised, stderr>>
    /\ UNCHANGED <<argv, audio_path, model_name, language, audio, result,
                   loadCalls, transcribeCalls, stdout>>

\* as NormalizeSamples, with int16 as the else branch: any other width is
\* read as 16-bit
NormalizeSamplesDefaultInt16 ==
    /\ pc = "normalize"
    /\ LET w == IF wf.width \in {1, 4} THEN wf.width ELSE 2
       IN  IF Len(wf.raw) % w # 0
           THEN /\ Raise("ValueError: buffer size must be a multiple of element size")
                /\ UNCHANGED audio
           ELSE /\ audio' = Normalize(wf.raw, w)
                /\ pc' = "mix"
                /\ UNCHANGED <<exitCode, raised, stderr>>
    /\ UNCHANGED <<argv, audio_path, model_name, language, wf, result, opened,
                   loadCalls, transcribeCalls, stdout>>

\* load_wav lines 27-34
NormalizeSamples ==
    /\ pc = "normalize"
    /\ IF wf.width \notin {2, 1, 4}
       THEN /\ Raise("ValueError: Unsupported sample width")
            /\ UNCHANGED audio
       ELSE IF Len(wf.raw) % wf.width # 0
       THEN /\ Raise("ValueError: buffer size must be a multiple of element size")
            /\ UNCHANGED audio
       ELSE /\ audio' = Normalize(wf.raw, wf.width)
            /\ pc' = "mix"
            /\ UNCHANGED <<exitCode, raised, stderr>>
    /\ UNCHANGED <<argv, audio_path, model_name, language, wf, result, opened,
                   loadCalls, transcribeCalls, stdout>>

\* as Mix, with the samples of an incomplete last frame dropped
MixDroppingPartialFrame ==
    /\ pc = "mix"
    /\ IF wf.channels > 1
       THEN /\ audio' = MixToMono(audio, wf.channels)
            /\ pc' = "resample"
            /\ UNCHANGED <<exitCode, raised, stderr>>
       ELSE /\ pc' = "resample"
            /\ UNCHANGED <<audio, exitCode, raised, stderr>>
    /\ UNCHANGED <<argv, audio_path, model_name, language, wf, result, opened,
                   loadCalls, transcribeCalls, stdout>>

\* load_wav lines 36-38
Mix ==
    /\ pc = "mix"
    /\ IF wf.channels > 1
       THEN IF Len(audio) % wf.channels # 0
            THEN /\ Raise("ValueError: cannot reshape array")
                 /\ UNCHANGED audio
            ELSE /\ audio' = MixToMono(audio, wf.channels)
                 /\ pc' = "resample"
                 /\ UNCHANGED <<exitCode, raised, stderr>>
       ELSE /\ pc' = "resample"
            /\ UNCHANGED <<audio, exitCode, raised, stderr>>
    /\ UNCHANGED <<argv, audio_path, model_name, language, wf, result, opened,
                   loadCalls, transcribeCalls, stdout>>

\* load_wav lines 40-49
ResampleTo16k ==
    /\ pc = "resample"
    /\ IF wf.rate # TargetRate
       THEN IF wf.rate = 0
            THEN /\ Raise("ZeroDivisionError")
                 /\ UNCHANGED audio
            ELSE IF Len(audio) = 0
            THEN /\ Raise("ValueError: array of sample points is empty")
                 /\ UNCHANGED audio
            ELSE /\ audio' = Resample(audio, wf.rate)
                 /\ pc' = "load_model"
                 /\ UNCHANGED <<exitCode, raised, stderr>>
       ELSE /\ pc' = "load_model"
            /\ UNCHANGED <<audio, exitCode, raised, stderr>>
    /\ UNCHANGED <<argv, audio_path, model_name, language, wf, result, opened,
                   loadCalls, transcribeCalls, stdout>>

\* main line 64: the model loads, or whisper.load_model raises
LoadModel ==
    /\ pc = "load_model"
    /\ loadCalls' = Append(loadCalls, model_name)
    /\ \/ /\ pc' = "transcribe"
          /\ UNCHANGED <<exitCode, raised, stderr>>
       \/ Raise("RuntimeError")
    /\ UNCHANGED <<argv, audio_path, model_name, language, wf, audio, result,
                   opened, transcribeCalls, stdout>>

\* main line 65: the model answers, or model.transcribe raises
Transcribe ==
    /\ pc = "transcribe"
    /\ transcribeCalls' =
           Append(transcribeCalls, [audio |-> audio, language |-> language])
    /\ \/ /\ \E t \in Texts : result' = t
          /\ pc' = "print"
          /\ UNCHANGED <<exitCode, raised, stderr>>
       \/ /\ Raise("ValueError: Unsupported language")
          /\ UNCHANGED result
    /\ UNCHANGED <<argv, audio_path, model_name, language, wf, audio, opened,
                   loadCalls, stdout>>

\* main line 66, then the interpreter ends with status 0
PrintResult ==
    /\ pc = "print"
    /\ stdout' = Append(stdout, Strip(result))
    /\ pc' = "exit"
    /\ exitCode' = 0
    /\ UNCHANGED <<argv, audio_path, model_name, language, wf, audio, result,
                   opened, loadCalls, transcribeCalls, stderr, raised>>

Next ==
    \/ ParseArgs
    \/ ValidateLanguage
    \/ OpenWav
    \/ NormalizeSamples
    \/ Mix
    \/ ResampleTo16k
    \/ LoadModel
    \/ Transcribe
    \/ PrintResult

Spec == Init /\ [][Next]_vars

----------------------------------------------------------------------------
(* The normalizer on its own: load_wav has read a mono 16 kHz file and      *)
(* reaches line 27.                                                         *)

InitNorm ==
    /\ argv = <<"transcribe.py", "a.wav">>
    /\ pc = "normalize"
    /\ audio_path = "a.wav"
    /\ model_name = DefaultModel
    /\ language = DefaultLanguage
    /\ wf \in NormFiles
    /\ audio = <<>>
    /\ result = <<>>
    /\ opened = <<"a.wav">>
    /\ loadCalls = <<>>
    /\ transcribeCalls = <<>>
    /\ stdout = <<>>
    /\ stderr = <<>>
    /\ exitCode = Running
    /\ raised = "none"

NextNorm == NormalizeSamples

SpecNorm == InitNorm /\ [][NextNorm]_vars

----------------------------------------------------------------------------
(* Vocabulary of the properties, stated on the inputs and the observable    *)
(* effects of a run.                                                        *)

\* the language argument of the command line, "en" when it is omitted
ArgLanguage == IF Len(argv) > 3 THEN argv[4] ELSE <<"e", "n">>

\* 2 or 3 ASCII letters, optionally followed by a hyphen and exactly 2 ASCII
\* letters, and nothing else
WellFormedTag(s) ==
    \/ /\ Len(s) \in {2, 3}
       /\ \A i \in 1..Len(s) : s[i] \in Letters
    \/ /\ Len(s) \in {5, 6}
       /\ \A i \in 1..(Len(s) - 3) : s[i] \in Letters
       /\ s[Len(s) - 2] = "-"
       /\ s[Len(s) - 1] \in Letters
       /\ s[Len(s)] \in Letters

Said(kind) == \E i \in 1..Len(stderr) : stderr[i].kind = kind

NoIO == opened = <<>> /\ wf = NoFile

NoModel == loadCalls = <<>> /\ transcribeCalls = <<>>

----------------------------------------------------------------------------
\* C1: a run whose language argument does not fully match
\* [A-Za-z]{2,3}(-[A-Za-z]{2})? never gets past the language check: no file
\* is opened and no model is loaded in any of its states, its next step is
\* always possible, and when it has ended it has ended with status 1 and the
\* invalid-language message.
C1_InvalidLanguageFailsBeforeIO ==
    (Len(argv) >= 2 /\ ~WellFormedTag(ArgLanguage)) =>
        /\ NoIO
        /\ NoModel
        /\ stdout = <<>>
        /\ pc \in {"start", "validate", "exit"}
        /\ pc = "start" => ENABLED ParseArgs
        /\ pc = "validate" => ENABLED ValidateLanguage
        /\ pc = "exit" =>
              /\ exitCode = 1
              /\ stderr = <<[kind |-> "invalid_language", text |-> ArgLanguage]>>

C1_Witness ==
    /\ Len(argv) = 4
    /\ argv[4] = <<"e", "n", "g", "l", "i", "s", "h">>
    /\ pc = "exit"
    /\ exitCode = 1
    /\ opened = <<>>

\* C8: a run without the audio-path argument ends at once with status 1 and
\* the usage message, by sys.exit and not by an uncaught exception, having
\* checked no language, opened no file, loaded no model and printed nothing.
C8_MissingPathUsage ==
    (Len(argv) < 2 /\ pc # "start") =>
        /\ pc = "exit"
        /\ exitCode = 1
        /\ raised = "SystemExit"
        /\ stderr = <<[kind |-> "usage", text |-> <<>>]>>
        /\ ~Said("invalid_language")
        /\ ~Said("traceback")
        /\ NoIO
        /\ NoModel
        /\ stdout = <<>>

C8_Witness ==
    /\ Len(argv) = 1
    /\ pc = "exit"
    /\ exitCode = 1
    /\ Said("usage")

\* C9: the language check accepts exactly the well-formed tags ("en", "eng"
\* and "zh-CN" among them; "e", "english", "en_US" and "" not); the model is
\* handed the accepted tag unchanged, and "en" when the argument is omitted.
C9_LanguageCheck ==
    /\ (Len(argv) >= 2 /\ pc \notin {"start", "validate"}) =>
          (Said("invalid_language") <=> ~WellFormedTag(ArgLanguage))
    /\ (Len(argv) >= 2 /\ pc \notin {"start", "validate", "exit"}) =>
          WellFormedTag(ArgLanguage)
    /\ \A i \in 1..Len(transcribeCalls) :
          transcribeCalls[i].language = ArgLanguage
    /\ FullMatch(<<"e", "n">>)
    /\ FullMatch(<<"e", "n", "g">>)
    /\ FullMatch(<<"z", "h", "-", "C", "N">>)
    /\ ~FullMatch(<<"e">>)
    /\ ~FullMatch(<<"e", "n", "g", "l", "i", "s", "h">>)
    /\ ~FullMatch(<<"e", "n", "_", "U", "S">>)
    /\ ~FullMatch(<<>>)

C9_Witness ==
    /\ Len(argv) = 4
    /\ argv[4] = <<"z", "h", "-", "C", "N">>
    /\ Len(transcribeCalls) = 1
    /\ transcribeCalls[1].language = <<"z", "h", "-", "C", "N">>

\* a run that omits the language argument hands "en" to the model
C9_WitnessDefault ==
    /\ Len(argv) = 2
    /\ Len(transcribeCalls) = 1
    /\ transcribeCalls[1].language = <<"e", "n">>

----------------------------------------------------------------------------
(* Properties of the decode chain, stated on the file that was read.        *)

\* the file was read (wave.open and readframes did not raise)
FileRead == opened # <<>> /\ wf # NoFile

\* samples and frames of the payload, whole ones
Samples(f) == Len(f.raw) \div f.width
Frames(f) == Samples(f) \div f.channels

WidthSupported(f) == f.width \in {1, 2, 4}

\* the payload is a whole number of samples
SampleAligned(f) == Len(f.raw) % f.width = 0

\* the samples are a whole number of frames
FrameAligned(f) == Samples(f) % f.channels = 0

\* load_wav has returned its sample sequence to main
Returned ==
    \/ pc \in {"load_model", "transcribe", "print"}
    \/ pc = "exit" /\ loadCalls # <<>>

\* a / b rounded to the nearest integer, ties to even, as Python's round
Round(a, b) ==
    LET q == a \div b
        r == a % b
    IN  IF 2 * r < b THEN q
        ELSE IF 2 * r > b THEN q + 1
        ELSE IF q % 2 = 0 THEN q ELSE q + 1

\* C2 as claimed: the resampled sequence has round(L * 16000 / R1) samples.
C2_LengthIsRounded ==
    (Returned /\ wf.rate # 16000) =>
        Len(audio) = Round(Frames(wf) * 16000, wf.rate)

\* C2, amended: the resampled sequence of a non-empty mono sequence read at
\* a rate R1 > 0 other than 16000 has floor(L * 16000 / R1) samples (int()
\* truncates); the step returns for every such input, and raises only when
\* R1 = 0 or the sequence is empty.
C2_LengthIsTruncated ==
    /\ (Returned /\ wf.rate # 16000) =>
          /\ wf.rate > 0
          /\ Frames(wf) >= 1
          /\ Len(audio) = (Frames(wf) * 16000) \div wf.rate
    /\ (/\ FileRead
        /\ WidthSupported(wf) /\ SampleAligned(wf) /\ FrameAligned(wf)
        /\ pc \notin {"normalize", "mix", "resample"}
        /\ wf.rate > 0
        /\ Frames(wf) >= 1) => Returned
    /\ raised = "ZeroDivisionError" => wf.rate = 0
    /\ raised = "ValueError: array of sample points is empty" =>
          Frames(wf) = 0 /\ wf.rate # 16000

\* 4 mono samples at 24000 Hz: 2.67 is truncated to 2, not rounded to 3
C2_Witness ==
    /\ pc = "load_model"
    /\ wf.rate = 24000
    /\ wf.channels = 1
    /\ Frames(wf) = 4
    /\ Len(audio) = 2

\* C3: the model is loaded only once load_wav has returned; when the file
\* cannot be opened or parsed, has an unsupported width or a misaligned
\* payload, the run ends with a non-zero status and neither load_model nor
\* transcribe is ever called.
DecodeFails ==
    /\ opened # <<>>
    /\ \/ wf = NoFile
       \/ ~WidthSupported(wf)
       \/ ~SampleAligned(wf)
       \/ ~FrameAligned(wf)

C3_ModelOnlyAfterDecode ==
    /\ (DecodeFails /\ pc \notin {"normalize", "mix"}) =>
          /\ pc = "exit"
          /\ exitCode = 1
          /\ Said("traceback")
          /\ NoModel
          /\ stdout = <<>>
    /\ DecodeFails => NoModel
    /\ loadCalls # <<>> =>
          /\ FileRead
          /\ ~DecodeFails
          /\ pc \in {"transcribe", "print", "exit"}
          /\ Len(loadCalls) = 1
    /\ transcribeCalls # <<>> => loadCalls # <<>>
    /\ pc \in {"start", "validate", "open", "normalize", "mix", "resample"}
          => NoModel

\* a file that is no RIFF/WAVE container ends the run before load_model
C3_Witness ==
    /\ pc = "exit"
    /\ raised = "wave.Error"
    /\ opened = <<"a.wav">>
    /\ exitCode = 1
    /\ loadCalls = <<>>

\* the bytes of the smallest raw value of a width
MinPattern(width) ==
    CASE width = 1 -> <<0>>
      [] width = 2 -> <<0, 128>>
      [] width = 4 -> <<0, 0, 0, 128>>

InUnitRange(x) == x.d > 0 /\ -x.d <= x.n /\ x.n <= x.d

\* the normalizer has run on the file's payload
Normalized == FileRead /\ pc = "mix"

\* C4: for widths 1, 2 and 4 every normalized sample lies in [-1, 1], the
\* smallest raw value of the width maps to exactly -1, and there are as
\* many normalized samples as raw ones.
C4_NormalizedRange ==
    Normalized =>
        /\ WidthSupported(wf)
        /\ Len(audio) * wf.width = Len(wf.raw)
        /\ \A i \in 1..Len(audio) :
              /\ InUnitRange(audio[i])
              /\ SubSeq(wf.raw, (i - 1) * wf.width + 1, i * wf.width)
                     = MinPattern(wf.width)
                 => audio[i] = MinusOne

\* the smallest and the largest int32, normalized to -1 and to 1
C4_Witness ==
    /\ Normalized
    /\ wf.width = 4
    /\ wf.raw = <<0, 0, 0, 128, 255, 255, 255, 127>>
    /\ audio = <<MinusOne, One>>


\* a * k, k an integer
Times(a, k) == RatMulFrac(a, k, 1)

\* out is the mono mix of the interleaved sequence in: one sample per frame,
\* in frame order, each the arithmetic mean of the frame's c samples
MeanOfFrames(in, out, c) ==
    /\ Len(out) * c = Len(in)
    /\ \A i \in 0..(Len(out) - 1) :
          Times(out[i + 1], c) = RatSum([j \in 1..c |-> in[i * c + j]])

\* C5: the mixing step of a sequence of N = k * C samples yields N / C
\* samples, the i-th the arithmetic mean of input samples i*C .. i*C + C-1;
\* with one channel the sequence is left as it is.
C5_MixIsFrameMean ==
    [][(pc = "mix" /\ Len(audio) % wf.channels = 0) =>
          /\ pc' = "resample"
          /\ IF wf.channels = 1 THEN audio' = audio
             ELSE MeanOfFrames(audio, audio', wf.channels)]_vars

\* two stereo frames with different means, mixed in order
C5_Witness ==
    /\ pc = "resample"
    /\ wf.channels = 2
    /\ wf.width = 2
    /\ wf.raw = <<0, 128, 0, 0, 0, 64, 0, 64>>
    /\ audio = <<[n |-> -1, d |-> 2], [n |-> 1, d |-> 2]>>

\* C6: with more than one channel and a sample count that is no multiple of
\* the channel count, the mixing step raises: the run ends with status 1,
\* the normalized samples are neither cut nor padded nor mixed, the
\* resampling step is not reached and no model is loaded.
C6_MisalignedFramesFail ==
    (/\ FileRead
     /\ WidthSupported(wf)
     /\ SampleAligned(wf)
     /\ wf.channels > 1
     /\ ~FrameAligned(wf)
     /\ pc \notin {"normalize", "mix"}) =>
        /\ pc = "exit"
        /\ exitCode = 1
        /\ raised = "ValueError: cannot reshape array"
        /\ Len(audio) = Samples(wf)
        /\ NoModel
        /\ stdout = <<>>

\* three 16-bit samples in a stereo file
C6_Witness ==
    /\ pc = "exit"
    /\ wf.channels = 2
    /\ wf.width = 2
    /\ Len(wf.raw) = 6
    /\ raised = "ValueError: cannot reshape array"

\* C7: a file whose sample width is not 1, 2 or 4 bytes makes load_wav raise
\* the unsupported-width error: no sample is decoded, the run ends with
\* status 1 and no model is loaded.
C7_UnsupportedWidthFails ==
    (FileRead /\ ~WidthSupported(wf) /\ pc # "normalize") =>
        /\ pc = "exit"
        /\ exitCode = 1
        /\ raised = "ValueError: Unsupported sample width"
        /\ audio = <<>>
        /\ NoModel
        /\ stdout = <<>>

\* one 24-bit sample
C7_Witness ==
    /\ pc = "exit"
    /\ wf.width = 3
    /\ wf.raw = <<0, 0, 128>>
    /\ raised = "ValueError: Unsupported sample width"

\* lo <= x <= hi or hi <= x <= lo
Between(lo, x, hi) ==
    \/ RatLeq(lo, x) /\ RatLeq(x, hi)
    \/ RatLeq(hi, x) /\ RatLeq(x, lo)

\* out[k] is the linear interpolation of in at position k*(L-1)/(L'-1),
\* k = 0 .. L'-1
InterpolationOf(in, out) ==
    LET L == Len(in)
        q == Len(out) - 1
    IN  /\ out[1] = in[1]
        /\ out[q + 1] = in[L]
        /\ \A k \in 0..q :
              LET p == k * (L - 1)
                  j == p \div q
                  r == p % q
              IN  IF r = 0 THEN out[k + 1] = in[j + 1]
                  ELSE /\ Times(out[k + 1], q)
                            = RatAdd(Times(in[j + 1], q - r), Times(in[j + 2], r))
                       /\ Between(in[j + 1], out[k + 1], in[j + 2])
        /\ (\A i \in 1..L : in[i] = Zero) => (\A k \in 1..(q + 1) : out[k] = Zero)

\* C10: when the rate is not 16000 and the resampled sequence has at least 2
\* samples, sample k is the linear interpolation of the mono input at
\* position k*(L-1)/(L'-1): first and last samples are kept, a position on
\* an original index gives that sample, every other value lies between its
\* two neighbours, and silence stays silence.
C10_LinearInterpolation ==
    [][(/\ pc = "resample"
        /\ pc' = "load_model"
        /\ wf.rate # 16000
        /\ Len(audio') >= 2) => InterpolationOf(audio, audio')]_vars

\* 3 mono samples -1, 0, 1/2 at 9600 Hz become 5: the originals and the two
\* midpoints
C10_Witness ==
    /\ pc = "load_model"
    /\ wf.rate = 9600
    /\ wf.channels = 1
    /\ wf.width = 2
    /\ wf.raw = <<0, 128, 0, 0, 0, 64>>
    /\ audio = <<MinusOne, [n |-> -1, d |-> 2], Zero, [n |-> 1, d |-> 4],
                 [n |-> 1, d |-> 2]>>


\* the file read is well-formed PCM: a supported width, a positive rate and a
\* payload that is a whole number of frames (zero frames included)
WellFormedPCM ==
    /\ FileRead
    /\ WidthSupported(wf)
    /\ SampleAligned(wf)
    /\ FrameAligned(wf)
    /\ wf.rate > 0

\* C11: on every well-formed PCM input (width 1, 2 or 4, any channel count,
\* any rate, a whole number of frames, none at all included, or so few that
\* the resampled length is 0) load_wav returns a sample sequence: once the
\* decode chain is through, the run has not ended with an exception of
\* load_wav.
C11_WellFormedNeverRaises ==
    (WellFormedPCM /\ pc \notin {"normalize", "mix", "resample"}) =>
        /\ Returned
        /\ raised \in {"none", "RuntimeError", "ValueError: Unsupported language"}

====
